---- MODULE Spec2Model ----
(***************************************************************************)
(* A model of the data engine of covid-tracker (src/src/main.js): the      *)
(* ingestion of the raw case, testing and population datasets              *)
(* (processStates, processUS, processTestingData, processPopulations,      *)
(* processGroups), the window filter (filterData and its memoize-one       *)
(* wrappers), the map summarizer (aggMapData) and the render pass that     *)
(* drives them.                                                            *)
(*                                                                         *)
(* Abstractions, all stated here once:                                     *)
(*  - a JavaScript number is an exact rational (n/d in lowest terms), NaN  *)
(*    or +/-Infinity: floating-point rounding and the sign of zero are not *)
(*    modelled;                                                            *)
(*  - a JavaScript string that the code takes apart (a date, a numeral, a  *)
(*    fips code) is a sequence of one-character strings;                   *)
(*  - a Date is its getTime() value counted in whole days since            *)
(*    2020-01-01 local time (NaN for an invalid Date): daylight-saving     *)
(*    shifts are not modelled;                                             *)
(*  - an absent object key reads as undefined.                             *)
(***************************************************************************)
EXTENDS Integers, Sequences, FiniteSets, TLC

VARIABLES
    csv,            \* raw case rows (us-states.csv), as fetched
    testingCsv,     \* raw testing rows (states/daily.json), as fetched
    statePop,       \* raw population rows (fips-pop-sta.csv), as fetched
    loaded,         \* FALSE while stateData and usData are still null
    stateData,      \* main.js:18, the groups processGroups returned
    usData,         \* main.js:20, the national group
    lastCasesDate,  \* main.js:40
    filters,        \* main.js:29-36
    isTestingData,  \* main.js:44
    datesToShow,    \* the window of the latest filterData call
    gridData,       \* the latest result of filterGridData: [groups, extents]
    overviewData,   \* the latest result of filterOverviewData
    gridMemo,       \* memoizeOne(filterData), main.js:554: last arguments and result
    overviewMemo,   \* memoizeOne(filterData), main.js:555
    nextRef,        \* the identity the next array render allocates will get
    mapPending,     \* TRUE while the latest render's map callback has not run
    joinedData,     \* the latest result of aggMapData: [threw, rows]
    calls,          \* history: what the functions returned for which inputs, and which threw
    countyData,     \* main.js:19, "null" until processCounties has run
    renderCalls,    \* history: how many times render has been entered
    mapDataPromise, \* main.js:1521: "none", "pending" or "resolved"
    mapRenderCount, \* main.js:565
    mapCallbacks,   \* the callbacks render chained on the pending mapDataPromise
    mapRenders,     \* history: the renderMap invocations
    thrown,         \* history: the renders that read a dataset still null
    tooltipShown,   \* main.js:42 (null reads as false)
    tooltipHideTimer, \* the id hideTooltipSoon stored last, 0 for undefined
    timers,         \* the ids of the setTimeout(hideTooltip) timers still to fire
    lastTooltipCall \* history: the latest of showTooltip, hideTooltip, hideTooltipSoon called

inputVars == <<csv, testingCsv, statePop>>
dataVars == <<loaded, stateData, usData, lastCasesDate>>
filterVars == <<filters, isTestingData>>
renderVars == <<datesToShow, gridData, overviewData, gridMemo, overviewMemo, nextRef,
                mapPending>>

mapVars == <<countyData, renderCalls, mapDataPromise, mapRenderCount, mapCallbacks, mapRenders,
             thrown>>
tooltipVars == <<tooltipShown, tooltipHideTimer, timers, lastTooltipCall>>

vars == <<inputVars, dataVars, filterVars, renderVars, joinedData, calls, mapVars,
          tooltipVars>>

-----------------------------------------------------------------------------
(* JavaScript values *)

JSNum(n)   == [k |-> "num", n |-> n, d |-> 1, s |-> <<>>]
JSStr(s)   == [k |-> "str", n |-> 0, d |-> 1, s |-> s]
JSNaN      == [k |-> "NaN", n |-> 0, d |-> 1, s |-> <<>>]
JSNull     == [k |-> "null", n |-> 0, d |-> 1, s |-> <<>>]
Undefined  == [k |-> "undef", n |-> 0, d |-> 1, s |-> <<>>]
JSInf(sg)  == [k |-> "inf", n |-> sg, d |-> 1, s |-> <<>>]

Abs(x) == IF x < 0 THEN -x ELSE x

RECURSIVE GCD(_, _)
GCD(a, b) == IF b = 0 THEN a ELSE GCD(b, a % b)

\* the rational n/d (d # 0) in lowest terms with a positive denominator
Rat(n, d) ==
    LET g == GCD(Abs(n), Abs(d))
        sg == IF d < 0 THEN -1 ELSE 1
    IN  [k |-> "num", n |-> sg * (n \div g), d |-> Abs(d) \div g, s |-> <<>>]

DigitChars == <<"0", "1", "2", "3", "4", "5", "6", "7", "8", "9">>
IsDigit(c) == \E i \in 1..10 : DigitChars[i] = c

RECURSIVE DigitsVal(_)
DigitsVal(s) ==
    IF s = <<>> THEN 0
    ELSE 10 * DigitsVal(SubSeq(s, 1, Len(s) - 1))
         + (CHOOSE i \in 1..10 : DigitChars[i] = s[Len(s)]) - 1

\* Number(string): the empty string is 0, a decimal numeral its value,
\* anything else NaN
StrToNumber(s) ==
    IF s = <<>> THEN JSNum(0)
    ELSE IF \A i \in 1..Len(s) : IsDigit(s[i]) THEN JSNum(DigitsVal(s))
    ELSE JSNaN

\* ToNumber, as applied by Number(x) and by the arithmetic operators
ToNumber(v) ==
    CASE v.k = "str"   -> StrToNumber(v.s)
      [] v.k = "null"  -> JSNum(0)
      [] v.k = "undef" -> JSNaN
      [] OTHER         -> v

RECURSIVE NatDigits(_)
NatDigits(n) ==
    IF n < 10 THEN <<DigitChars[n + 1]>>
    ELSE NatDigits(n \div 10) \o <<DigitChars[(n % 10) + 1]>>

\* String(x) of a non-negative integer or of a string
JSString(v) == IF v.k = "str" THEN v.s ELSE NatDigits(v.n)

\* String.prototype.substring(a, b), 0-based, b exclusive, clamped
Substring(s, a, b) ==
    LET lo == IF a > Len(s) THEN Len(s) ELSE a
        hi == IF b > Len(s) THEN Len(s) ELSE b
    IN  SubSeq(s, lo + 1, hi)

IsFinite(v) == v.k = "num"
TypeofNumber(v) == v.k \in {"num", "NaN", "inf"}
NotNullish(v) == v.k \notin {"null", "undef"}
Truthy(v) ==
    CASE v.k = "num" -> v.n # 0
      [] v.k = "inf" -> TRUE
      [] v.k = "str" -> v.s # <<>>
      [] OTHER       -> FALSE

JSNeg(v) ==
    CASE v.k = "num" -> Rat(-v.n, v.d)
      [] v.k = "inf" -> JSInf(-v.n)
      [] OTHER       -> v

\* the arithmetic of two numbers (after ToNumber)
AddNumbers(a, b) ==
    CASE a.k = "NaN" \/ b.k = "NaN" -> JSNaN
      [] a.k = "inf" /\ b.k = "inf" -> IF a.n = b.n THEN a ELSE JSNaN
      [] a.k = "inf" -> a
      [] b.k = "inf" -> b
      [] OTHER -> Rat(a.n * b.d + b.n * a.d, a.d * b.d)

JSAdd(x, y) == AddNumbers(ToNumber(x), ToNumber(y))

JSSub(x, y) == AddNumbers(ToNumber(x), JSNeg(ToNumber(y)))

DivNumbers(a, b) ==
    CASE a.k = "NaN" \/ b.k = "NaN" -> JSNaN
      [] a.k = "inf" /\ b.k = "inf" -> JSNaN
      [] a.k = "inf" -> JSInf(IF b.n < 0 THEN -a.n ELSE a.n)
      [] b.k = "inf" -> JSNum(0)
      [] b.n = 0 -> IF a.n = 0 THEN JSNaN ELSE JSInf(IF a.n < 0 THEN -1 ELSE 1)
      [] OTHER -> Rat(a.n * b.d, a.d * b.n)

JSDiv(x, y) == DivNumbers(ToNumber(x), ToNumber(y))

\* a < b and a === b on numbers (false when either side is NaN)
LtNumbers(a, b) ==
    CASE a.k = "NaN" \/ b.k = "NaN" -> FALSE
      [] a.k = "inf" /\ b.k = "inf" -> a.n < b.n
      [] a.k = "inf" -> a.n < 0
      [] b.k = "inf" -> b.n > 0
      [] OTHER -> a.n * b.d < b.n * a.d

JSLt(x, y) == LtNumbers(ToNumber(x), ToNumber(y))

EqNumbers(a, b) == a.k # "NaN" /\ b.k # "NaN" /\ a = b

JSNumEq(x, y) == EqNumbers(ToNumber(x), ToNumber(y))

-----------------------------------------------------------------------------
(* Dates *)

IsLeap(y) == (y % 4 = 0 /\ y % 100 # 0) \/ y % 400 = 0
DaysInYear(y) == IF IsLeap(y) THEN 366 ELSE 365
MonthLengths(y) ==
    <<31, IF IsLeap(y) THEN 29 ELSE 28, 31, 30, 31, 30, 31, 31, 30, 31, 30, 31>>

\* days from 2020-01-01 to January 1st of year y
RECURSIVE DaysBeforeYear(_)
DaysBeforeYear(y) ==
    IF y = 2020 THEN 0
    ELSE IF y > 2020 THEN DaysBeforeYear(y - 1) + DaysInYear(y - 1)
    ELSE DaysBeforeYear(y + 1) - DaysInYear(y)

\* days from January 1st of year y to the first of month index mi (0..11)
RECURSIVE DaysBeforeMonth(_, _)
DaysBeforeMonth(y, mi) ==
    IF mi = 0 THEN 0 ELSE DaysBeforeMonth(y, mi - 1) + MonthLengths(y)[mi]

\* new Date(year, monthIndex, date).getTime(), in days: a month index or a
\* day of the month out of range carries over, a non-number gives an
\* invalid Date
NewDate(year, monthIndex, date) ==
    IF ~(IsFinite(year) /\ IsFinite(monthIndex) /\ IsFinite(date)) THEN JSNaN
    ELSE LET y0 == IF year.n >= 0 /\ year.n <= 99 THEN 1900 + year.n ELSE year.n
             y  == y0 + (monthIndex.n \div 12)
             mi == monthIndex.n % 12
         IN  JSNum(DaysBeforeYear(y) + DaysBeforeMonth(y, mi) + date.n - 1)

\* String.prototype.split on a one-character separator
RECURSIVE Split(_, _)
Split(s, sep) ==
    IF \A i \in 1..Len(s) : s[i] # sep THEN <<s>>
    ELSE LET p == CHOOSE i \in 1..Len(s) : s[i] = sep /\ \A j \in 1..(i - 1) : s[j] # sep
         IN  <<SubSeq(s, 1, p - 1)>> \o Split(SubSeq(s, p + 1, Len(s)), sep)

\* array[i] with i counted from 1: undefined past the end
PartAt(parts, i) == IF i <= Len(parts) THEN JSStr(parts[i]) ELSE Undefined

-----------------------------------------------------------------------------
(* Constants of the program *)

NytKeys == <<"cases", "deaths", "newCases", "newDeaths">>
TestKeys == <<"positive", "negative", "pending", "tests",
              "newPositive", "newNegative", "newTests">>
PctKeys == {"positivePct", "negativePct", "pendingPct", "newPositivePct", "newNegativePct"}

getValueKeys(withTesting) == IF withTesting THEN NytKeys \o TestKeys ELSE NytKeys

per100kKey(key) ==
    CASE key = "cases"       -> "cases_p100k"
      [] key = "deaths"      -> "deaths_p100k"
      [] key = "newCases"    -> "newCases_p100k"
      [] key = "newDeaths"   -> "newDeaths_p100k"
      [] key = "positive"    -> "positive_p100k"
      [] key = "negative"    -> "negative_p100k"
      [] key = "pending"     -> "pending_p100k"
      [] key = "tests"       -> "tests_p100k"
      [] key = "newPositive" -> "newPositive_p100k"
      [] key = "newNegative" -> "newNegative_p100k"
      [] key = "newTests"    -> "newTests_p100k"

Range(s) == {s[i] : i \in 1..Len(s)}
ValueKeySet == Range(getValueKeys(TRUE))
P100kKeySet == {per100kKey(k) : k \in ValueKeySet}

\* every key a daily record or a summary row can carry
RecordKeys == {"date", "pop", "i"} \cup ValueKeySet \cup PctKeys \cup P100kKeySet

\* obj[key]: undefined when the key is absent
Get(f, key) == IF key \in DOMAIN f THEN f[key] ELSE Undefined

NoFields == [key \in RecordKeys |-> Undefined]

KANSAS_CITY_FAKE_FIPS == <<"2", "9", "9", "9", "9">>
NYC_FIPS == <<"3", "6", "0", "6", "1">>

countyLabelToFips(county) ==
    CASE county = "New York City" -> JSStr(NYC_FIPS)
      [] county = "Kansas City"   -> JSStr(KANSAS_CITY_FAKE_FIPS)
      [] OTHER                    -> Undefined

populationOverrides ==
    (KANSAS_CITY_FAKE_FIPS :> 505604) @@
    (<<"2", "9", "0", "3", "7">> :> 85) @@
    (<<"2", "9", "0", "9", "5">> :> 313870) @@
    (<<"2", "9", "0", "4", "7">> :> 137446) @@
    (<<"2", "9", "1", "6", "5">> :> 54202) @@
    (NYC_FIPS :> 8336817)

fipsRemapping ==
    (<<"3", "6", "0", "0", "5">> :> NYC_FIPS) @@
    (<<"3", "6", "0", "4", "7">> :> NYC_FIPS) @@
    (<<"3", "6", "0", "8", "1">> :> NYC_FIPS) @@
    (<<"3", "6", "0", "8", "5">> :> NYC_FIPS)

-----------------------------------------------------------------------------
(* Data processing: main.js "Data Processing" *)

\* the property key an object is indexed with
PropKey(v) == IF v.k = "str" THEN v.s ELSE <<"undefined">>

EmptyMap == [x \in {} |-> Undefined]

\* d3.nest().key(K).entries(rows): the distinct keys in order of first
\* appearance, each with its rows in their original order
NestEntries(rows, keys) ==
    LET firsts == {i \in 1..Len(rows) : \A j \in 1..(i - 1) : keys[j] # keys[i]}
        RECURSIVE Ordered(_)
        Ordered(left) ==
            IF left = {} THEN <<>>
            ELSE LET m == CHOOSE i \in left : \A j \in left : i <= j
                 IN  <<m>> \o Ordered(left \ {m})
        idx == Ordered(firsts)
        RowsOf(k) ==
            LET RECURSIVE Pick(_)
                Pick(i) ==
                    IF i > Len(rows) THEN <<>>
                    ELSE (IF keys[i] = k THEN <<rows[i]>> ELSE <<>>) \o Pick(i + 1)
            IN  Pick(1)
    IN  [n \in 1..Len(idx) |-> [key |-> keys[idx[n]], values |-> RowsOf(keys[idx[n]])]]

NestByState(rows) == NestEntries(rows, [i \in 1..Len(rows) |-> rows[i].state])
NestByDate(rows) == NestEntries(rows, [i \in 1..Len(rows) |-> rows[i].date])

coerceNumber(value) == IF ~NotNullish(value) THEN JSNull ELSE ToNumber(value)

\* the value processTestingData builds from one testing row, the month
\* index being the month less monthBase
TestingValueFrom(c, monthBase) ==
    LET str   == JSString(c.date)
        year  == Substring(str, 0, 4)
        month == Substring(str, 4, 6)
        date  == Substring(str, 6, 8)
    IN  [fips |-> IF Truthy(c.fips) THEN c.fips ELSE JSStr(<<>>),
         date |-> NewDate(StrToNumber(year),
                          JSSub(StrToNumber(month), JSNum(monthBase)),
                          StrToNumber(date)),
         t |-> [key \in Range(TestKeys) |->
                  CASE key = "positive"    -> coerceNumber(c.positive)
                    [] key = "negative"    -> coerceNumber(c.negative)
                    [] key = "pending"     -> coerceNumber(c.pending)
                    [] key = "tests"       -> coerceNumber(c.total)
                    [] key = "newPositive" -> coerceNumber(c.positiveIncrease)
                    [] key = "newNegative" -> coerceNumber(c.negativeIncrease)
                    [] key = "newTests"    -> coerceNumber(c.totalTestResultsIncrease)]]

\* a slip: the month of the numeral used as the month index
TestingValueMonthOff(c) == TestingValueFrom(c, 0)

TestingValue(c) == TestingValueFrom(c, 1)

\* a slip: a value already indexed for the region and date is kept
PutTestingValueKeepFirst(byFips, fips, value) ==
    (fips :> ((IF fips \in DOMAIN byFips THEN byFips[fips] ELSE EmptyMap)
              @@ (value.date :> value))) @@ byFips

\* byFips[c.fips][value.date] = value
PutTestingValue(byFips, fips, value) ==
    (fips :> ((value.date :> value)
              @@ (IF fips \in DOMAIN byFips THEN byFips[fips] ELSE EmptyMap))) @@ byFips

\* one pass of the loop of processTestingData
AddTestingRow(byFips, c) ==
    IF ~Truthy(c.date) THEN byFips ELSE PutTestingValue(byFips, PropKey(c.fips), TestingValue(c))

\* byFips after the first n rows of the testing dataset
RECURSIVE TestingIndex(_, _)
TestingIndex(rows, n) ==
    IF n = 0 THEN EmptyMap ELSE AddTestingRow(TestingIndex(rows, n - 1), rows[n])

processTestingData(rows) == TestingIndex(rows, Len(rows))

\* parseInt(string): the value of the leading run of digits, NaN without one
parseInt(s) ==
    LET n == CHOOSE m \in 0..Len(s) :
                 /\ \A i \in 1..m : IsDigit(s[i])
                 /\ (m < Len(s) => ~IsDigit(s[m + 1]))
    IN  IF n = 0 THEN JSNaN ELSE JSNum(DigitsVal(SubSeq(s, 1, n)))

\* a slip: the row's own id is written, not the id it is remapped to
RECURSIVE PopulationMapNoRemap(_, _)
PopulationMapNoRemap(pop, n) ==
    IF n = 0 THEN [f \in DOMAIN populationOverrides |-> JSNum(populationOverrides[f])]
    ELSE IF pop[n].fips \in DOMAIN populationOverrides
    THEN (pop[n].fips :> JSNum(populationOverrides[pop[n].fips]))
             @@ PopulationMapNoRemap(pop, n - 1)
    ELSE (pop[n].fips :> parseInt(pop[n].pop)) @@ PopulationMapNoRemap(pop, n - 1)

\* the population map after the first n rows of the population dataset
RECURSIVE PopulationMap(_, _)
PopulationMap(pop, n) ==
    IF n = 0 THEN [f \in DOMAIN populationOverrides |-> JSNum(populationOverrides[f])]
    ELSE LET map == PopulationMap(pop, n - 1)
             p == pop[n]
             fips == IF p.fips \in DOMAIN fipsRemapping THEN fipsRemapping[p.fips] ELSE p.fips
         IN  IF fips \in DOMAIN populationOverrides
             THEN (fips :> JSNum(populationOverrides[fips])) @@ map
             ELSE (fips :> parseInt(p.pop)) @@ map

processPopulations(pop) == PopulationMap(pop, Len(pop))

US_FIPS == <<"0", "0">>

\* a slip: = in place of +=, the total is the last row's value
UsSumAssign(rows, key, n) ==
    IF n = 0 THEN Undefined
    ELSE ToNumber(IF key = "cases" THEN rows[n].cases ELSE rows[n].deaths)

\* the running national total of one case field after the first n state
\* rows of one date
RECURSIVE UsSum(_, _, _)
UsSum(rows, key, n) ==
    IF n = 0 THEN Undefined
    ELSE LET acc == UsSum(rows, key, n - 1)
             start == IF ~Truthy(acc) THEN JSNum(0) ELSE acc
             state == rows[n]
         IN  JSAdd(start, ToNumber(IF key = "cases" THEN state.cases ELSE state.deaths))

\* the running national total of one testing field at one date, over the
\* regions still to visit
RECURSIVE UsTestSum(_, _, _, _, _)
UsTestSum(testingByFips, left, date, key, acc) ==
    IF left = {} THEN acc
    ELSE LET fips == CHOOSE f \in left : TRUE
             stateValueAtDate == testingByFips[fips][date]
             start == IF ~Truthy(acc) THEN JSNum(0) ELSE acc
             v == stateValueAtDate.t[key]
         IN  UsTestSum(testingByFips, left \ {fips}, date, key,
                       JSAdd(start, IF Truthy(v) THEN v ELSE JSNum(0)))

\* processUS: [the raw national group, the national testing index]
processUS(rows, testingByFips) ==
    LET nested == NestByDate(rows)
        usValues ==
            [n \in 1..Len(nested) |->
                LET stateValuesAtDate == nested[n].values
                IN  [date |-> stateValuesAtDate[1].date,
                     state |-> "",
                     county |-> "",
                     fips |-> JSStr(US_FIPS),
                     cases |-> UsSum(stateValuesAtDate, "cases", Len(stateValuesAtDate)),
                     deaths |-> UsSum(stateValuesAtDate, "deaths", Len(stateValuesAtDate))]]
        allDates == UNION {DOMAIN testingByFips[f] : f \in DOMAIN testingByFips}
        testsByDate ==
            [date \in allDates |->
                [t |-> [key \in Range(TestKeys) |->
                    UsTestSum(testingByFips,
                              {f \in DOMAIN testingByFips : date \in DOMAIN testingByFips[f]},
                              date, key, Undefined)]]]
    IN  [groups |-> <<[key |-> "United States", values |-> usValues]>>,
         testing |-> (US_FIPS :> testsByDate)]

\* the testing fields processGroups copies from a matching testing value
WithTesting(f, testing) ==
    [key \in DOMAIN f |->
        CASE key \in Range(TestKeys)   -> testing.t[key]
          [] key = "positivePct"       -> JSDiv(testing.t["positive"], testing.t["tests"])
          [] key = "negativePct"       -> JSDiv(testing.t["negative"], testing.t["tests"])
          [] key = "pendingPct"        -> JSDiv(testing.t["pending"], testing.t["tests"])
          [] key = "newPositivePct"    -> JSDiv(testing.t["newPositive"], testing.t["newTests"])
          [] key = "newNegativePct"    -> JSDiv(testing.t["newNegative"], testing.t["newTests"])
          [] OTHER                     -> f[key]]

\* a slip: the factor taken per thousand
PerCapitaPerThousand(value, pop) == JSDiv(value, JSDiv(pop, JSNum(1000)))

\* parsed[key] / p100kFactor
PerCapita(value, pop) == JSDiv(value, JSDiv(pop, JSNum(100000)))

\* the population-normalized fields of a record whose region has population pop
WithPopulation(f, pop, valueKeys) ==
    [key \in DOMAIN f |->
        IF key = "pop" THEN pop
        ELSE IF \E k \in Range(valueKeys) : per100kKey(k) = key /\ TypeofNumber(f[k])
        THEN LET k == CHOOSE k \in Range(valueKeys) : per100kKey(k) = key
             IN  PerCapita(f[k], pop)
        ELSE f[key]]

\* a slip: the first record of a series starts from itself, not from zero
DeltaNoBaseline(current, hasPrev, prevValue) ==
    IF hasPrev THEN JSSub(current, prevValue) ELSE JSNum(0)

\* the new cases and new deaths of a row, given the row before it
Delta(current, hasPrev, prevValue) ==
    IF hasPrev THEN JSSub(current, prevValue) ELSE current

\* row.date.split('-') made a Date (main.js:440, 448)
DateOfParts(parts) ==
    NewDate(ToNumber(PartAt(parts, 1)),
            JSSub(ToNumber(PartAt(parts, 2)), JSNum(1)),
            ToNumber(PartAt(parts, 3)))

\* the fips of a row, taken from the county label when the row has none
RowFips(row) ==
    IF ~Truthy(row.fips) /\ row.county # "" THEN countyLabelToFips(row.county) ELSE row.fips

\* parsed, with the deltas to the previous row
BaseFields(row, hasPrev, prevRow, date) ==
    [key \in RecordKeys |->
        CASE key = "date"      -> date
          [] key = "cases"     -> ToNumber(row.cases)
          [] key = "deaths"    -> ToNumber(row.deaths)
          [] key = "newCases"  -> Delta(ToNumber(row.cases), hasPrev, prevRow.cases)
          [] key = "newDeaths" -> Delta(ToNumber(row.deaths), hasPrev, prevRow.deaths)
          [] OTHER             -> Undefined]

\* testingMap[fips], nothing when there is no testing map or no such region
TestingOf(testingMap, hasTestingMap, fips) ==
    IF hasTestingMap /\ PropKey(fips) \in DOMAIN testingMap
    THEN testingMap[PropKey(fips)] ELSE EmptyMap

\* the testing join: the testing value of the region at the date, when there is one
JoinTesting(base, forFips, date) ==
    IF date \in DOMAIN forFips THEN WithTesting(base, forFips[date]) ELSE base

\* a slip: the population fields written whether or not the population is known
JoinPopulationAlways(tested, pop, valueKeys) == WithPopulation(tested, pop, valueKeys)

\* the population join: when the population is known (truthy)
JoinPopulation(tested, pop, valueKeys) ==
    IF Truthy(pop) THEN WithPopulation(tested, pop, valueKeys) ELSE tested

ParsedFields(row, hasPrev, prevRow, date, fips, popMap, testingMap, hasTestingMap) ==
    JoinPopulation(JoinTesting(BaseFields(row, hasPrev, prevRow, date),
                               TestingOf(testingMap, hasTestingMap, fips), date),
                   IF PropKey(fips) \in DOMAIN popMap THEN popMap[PropKey(fips)] ELSE Undefined,
                   getValueKeys(hasTestingMap))

ParseRecord(row, hasPrev, prevRow, fips, popMap, testingMap, hasTestingMap) ==
    [state |-> row.state,
     county |-> row.county,
     fips |-> fips,
     f |-> ParsedFields(row, hasPrev, prevRow, DateOfParts(Split(row.date.s, "-")), fips,
                        popMap, testingMap, hasTestingMap)]

\* one pass of the loop of processGroups: the record built from row i of a group
ParseRow(values, i, popMap, testingMap, hasTestingMap) ==
    ParseRecord(values[i], i > 1, values[IF i > 1 THEN i - 1 ELSE i], RowFips(values[i]),
                popMap, testingMap, hasTestingMap)

\* a processed group: g.noPopulation = true once a record has no population
GroupOf(key, newValues) ==
    [key |-> key,
     values |-> newValues,
     sortVal |-> Undefined,
     noPopulation |-> \E i \in 1..Len(newValues) : ~Truthy(newValues[i].f["pop"])]

\* processGroups, group by group
ProcessGroup(group, popMap, testingMap, hasTestingMap) ==
    GroupOf(group.key,
            [i \in 1..Len(group.values) |->
                ParseRow(group.values, i, popMap, testingMap, hasTestingMap)])

processGroups(groups, popMap, testingMap, hasTestingMap) ==
    [g \in 1..Len(groups) |-> ProcessGroup(groups[g], popMap, testingMap, hasTestingMap)]

\* lastCasesDate after processGroups has walked the first n of these dates
RECURSIVE LastDateAfter(_, _, _)
LastDateAfter(dates, n, last) ==
    IF n = 0 THEN last
    ELSE LET prev == LastDateAfter(dates, n - 1, last)
         IN  IF prev = JSNull \/ JSLt(prev, dates[n]) THEN dates[n] ELSE prev

RECURSIVE Flatten(_)
Flatten(seqs) == IF seqs = <<>> THEN <<>> ELSE Head(seqs) \o Flatten(Tail(seqs))

\* the dates of the records of these groups, in processing order
GroupDates(groups) ==
    Flatten([g \in 1..Len(groups) |->
                [i \in 1..Len(groups[g].values) |-> groups[g].values[i].f["date"]]])

-----------------------------------------------------------------------------
(* The window filter and extent tracker *)

\* the while loop of filterData: the first index at or after valuesIndex
\* whose record is not dated before the target date
RECURSIVE Advance(_, _, _)
Advance(values, valuesIndex, target) ==
    IF valuesIndex <= Len(values) /\ JSLt(values[valuesIndex].f["date"], target)
    THEN Advance(values, valuesIndex + 1, target)
    ELSE valuesIndex

\* a slip: >= in place of ===, the record the walk stopped at is taken
MatchesAtOrAfter(values, vi, target) == vi <= Len(values)

\* the second test of filterData: the record at vi is dated exactly target
Matches(values, vi, target) ==
    vi <= Len(values) /\ JSNumEq(values[vi].f["date"], target)

\* the record matched at window position i (counted from 1), tagged with
\* its position in the window, when the walk stopped at a match
MatchedAt(values, vi, target, i) ==
    IF Matches(values, vi, target)
    THEN <<[values[vi] EXCEPT !.f = [@ EXCEPT !["i"] = JSNum(i - 1)]]>>
    ELSE <<>>

RECURSIVE WindowValues(_, _, _, _)

\* the body of the for loop once the while loop has advanced to vi
WindowFrom(values, dates, i, vi) ==
    MatchedAt(values, vi, dates[i], i) \o WindowValues(values, dates, i + 1, vi)

\* a slip: the record tagged with its index in the series
RECURSIVE WindowValuesSeriesIndex(_, _, _, _)
WindowValuesSeriesIndex(values, dates, i, valuesIndex) ==
    IF i > Len(dates) THEN <<>>
    ELSE LET vi == Advance(values, valuesIndex, dates[i])
             hit == Matches(values, vi, dates[i])
             out == IF hit
                    THEN <<[values[vi] EXCEPT !.f = [@ EXCEPT !["i"] = JSNum(vi - 1)]]>>
                    ELSE <<>>
         IN  out \o WindowValuesSeriesIndex(values, dates, i + 1, vi)

\* the for loop of filterData from window position i (counted from 1) on
WindowValues(values, dates, i, valuesIndex) ==
    IF i > Len(dates) THEN <<>>
    ELSE WindowFrom(values, dates, i, Advance(values, valuesIndex, dates[i]))

extentKeysOf(valueKeys) ==
    <<"date">> \o valueKeys \o [n \in 1..Len(valueKeys) |-> per100kKey(valueKeys[n])]

\* a slip: the upper bound is set by the first value and never raised
WidenFirstMax(extent, v) ==
    <<IF NotNullish(v) /\ (extent[1] = JSNull \/ JSLt(v, extent[1])) THEN v ELSE extent[1],
      IF NotNullish(v) /\ extent[2] = JSNull THEN v ELSE extent[2]>>

\* extent[0] = min(extent[0], v) and extent[1] = max(extent[1], v), for a
\* value that is not null or undefined
Widen(extent, v) ==
    <<IF NotNullish(v) /\ (extent[1] = JSNull \/ JSLt(v, extent[1])) THEN v ELSE extent[1],
      IF NotNullish(v) /\ (extent[2] = JSNull \/ JSLt(extent[2], v)) THEN v ELSE extent[2]>>

\* the extent of one key after the first n matched records
RECURSIVE ExtentAfter(_, _, _)
ExtentAfter(values, key, n) ==
    IF n = 0 THEN <<JSNull, JSNull>>
    ELSE Widen(ExtentAfter(values, key, n - 1), values[n].f[key])

FilterGroup(g, dates) == [g EXCEPT !.values = WindowValues(g.values, dates, 1, 1)]

\* the extents over the matched records of all groups
ExtentsOf(matched, extentKeys) ==
    [key \in Range(extentKeys) |-> ExtentAfter(matched, key, Len(matched))]

\* what filterData returns for these filtered groups
Filtered(newGroups, extentKeys) ==
    [groups |-> newGroups,
     extents |-> ExtentsOf(Flatten([n \in 1..Len(newGroups) |-> newGroups[n].values]),
                           extentKeys)]

filterData(groups, dates, hasTestingData) ==
    Filtered([n \in 1..Len(groups) |-> FilterGroup(groups[n], dates)],
             extentKeysOf(getValueKeys(hasTestingData)))

-----------------------------------------------------------------------------
(* The map summarizer *)

\* a slip: the loop starts at the second value
RECURSIVE d3sumFromSecond(_, _, _)
d3sumFromSecond(values, key, n) ==
    IF n <= 1 THEN JSNum(0)
    ELSE LET v == ToNumber(Get(values[n].f, key))
         IN  IF Truthy(v) THEN JSAdd(d3sumFromSecond(values, key, n - 1), v)
             ELSE d3sumFromSecond(values, key, n - 1)

\* d3.sum(values, v => v[key]): the total of the values that are numbers
\* other than zero and NaN
RECURSIVE d3sum(_, _, _)
d3sum(values, key, n) ==
    IF n = 0 THEN JSNum(0)
    ELSE LET v == ToNumber(Get(values[n].f, key))
         IN  IF Truthy(v) THEN JSAdd(d3sum(values, key, n - 1), v)
             ELSE d3sum(values, key, n - 1)

\* the values d3.mean counts: not null, not undefined, not NaN
Counted(v) == NotNullish(v) /\ ToNumber(v).k # "NaN"

\* a slip: the total of the counted values, not divided by their number
d3meanTotal(values, key) ==
    LET idx == {n \in 1..Len(values) : Counted(Get(values[n].f, key))}
        RECURSIVE Total(_)
        Total(left) ==
            IF left = {} THEN JSNum(0)
            ELSE LET n == CHOOSE m \in left : TRUE
                 IN  JSAdd(Total(left \ {n}), Get(values[n].f, key))
    IN  IF idx = {} THEN Undefined ELSE Total(idx)

\* d3.mean(values, v => v[key]): undefined when no value counts
d3mean(values, key) ==
    LET idx == {n \in 1..Len(values) : Counted(Get(values[n].f, key))}
        RECURSIVE Total(_)
        Total(left) ==
            IF left = {} THEN JSNum(0)
            ELSE LET n == CHOOSE m \in left : TRUE
                 IN  JSAdd(Total(left \ {n}), Get(values[n].f, key))
    IN  IF idx = {} THEN Undefined ELSE JSDiv(Total(idx), JSNum(Cardinality(idx)))

\* the sums and means aggMapData takes over the matched records of a group
SummarySums(values, hasTests, n) ==
    [key \in RecordKeys |->
        CASE key = "pop"       -> values[1].f["pop"]
          [] key = "cases"     -> d3sum(values, "newCases", n)
          [] key = "deaths"    -> d3sum(values, "newDeaths", n)
          [] key = "newCases"  -> d3mean(values, "newCases")
          [] key = "newDeaths" -> d3mean(values, "newDeaths")
          [] hasTests /\ key = "tests"       -> d3sum(values, "newTests", n)
          [] hasTests /\ key = "positive"    -> d3sum(values, "newPositive", n)
          [] hasTests /\ key = "negative"    -> d3sum(values, "newNegative", n)
          [] hasTests /\ key = "pending"     -> d3sum(values, "newPending", n)
          [] hasTests /\ key = "newTests"    -> d3mean(values, "newTests")
          [] hasTests /\ key = "newPositive" -> d3mean(values, "newPositive")
          [] hasTests /\ key = "newNegative" -> d3mean(values, "newNegative")
          [] OTHER -> Undefined]

\* a slip: the ratios of the daily means taken over the total of tests
SummaryRatiosOverTests(sums, hasTests) ==
    [key \in RecordKeys |->
        CASE hasTests /\ key = "positivePct" -> JSDiv(sums["positive"], sums["tests"])
          [] hasTests /\ key = "negativePct" -> JSDiv(sums["negative"], sums["tests"])
          [] hasTests /\ key = "pendingPct"  -> JSDiv(sums["pending"], sums["tests"])
          [] hasTests /\ key = "newPositivePct" -> JSDiv(sums["newPositive"], sums["tests"])
          [] hasTests /\ key = "newNegativePct" -> JSDiv(sums["newNegative"], sums["tests"])
          [] OTHER -> sums[key]]

\* the ratios of the sums
SummaryRatios(sums, hasTests) ==
    [key \in RecordKeys |->
        CASE hasTests /\ key = "positivePct" -> JSDiv(sums["positive"], sums["tests"])
          [] hasTests /\ key = "negativePct" -> JSDiv(sums["negative"], sums["tests"])
          [] hasTests /\ key = "pendingPct"  -> JSDiv(sums["pending"], sums["tests"])
          [] hasTests /\ key = "newPositivePct" ->
                 JSDiv(sums["newPositive"], sums["newTests"])
          [] hasTests /\ key = "newNegativePct" ->
                 JSDiv(sums["newNegative"], sums["newTests"])
          [] OTHER -> sums[key]]

\* the per-capita value of each field that is a number
SummaryPerCapita(value, fields) ==
    [key \in RecordKeys |->
        IF \E k \in Range(fields) : per100kKey(k) = key /\ TypeofNumber(value[k])
        THEN LET k == CHOOSE k \in Range(fields) : per100kKey(k) = key
             IN  PerCapita(value[k], value["pop"])
        ELSE value[key]]

\* the summary value aggMapData builds for a group with matched records
SummaryFields(values, hasTests) ==
    SummaryPerCapita(SummaryRatios(SummarySums(values, hasTests, Len(values)), hasTests),
                     getValueKeys(hasTests))

\* the key of byFips[Number(fips)]
NumberKey(v) == IF IsFinite(ToNumber(v)) THEN NatDigits(ToNumber(v).n) ELSE <<"NaN">>

\* byFips after the first n groups
RECURSIVE SummaryByFips(_, _, _)
SummaryByFips(groups, hasTests, n) ==
    IF n = 0 THEN EmptyMap
    ELSE LET byFips == SummaryByFips(groups, hasTests, n - 1)
             group == groups[n]
         IN  IF Len(group.values) = 0 THEN byFips
             ELSE (NumberKey(group.values[1].fips) :>
                      [fips |-> group.values[1].fips,
                       label |-> group.key,
                       f |-> SummaryFields(group.values, hasTests)]) @@ byFips

\* the row aggMapData returns for one map feature
FeatureRow(id, byFips) ==
    LET own == NatDigits(id)
        fips == IF own \in DOMAIN fipsRemapping THEN fipsRemapping[own] ELSE own
    IN  IF fips \in DOMAIN byFips
        THEN [id |-> id, hasData |-> TRUE, fips |-> byFips[fips].fips,
              label |-> byFips[fips].label, f |-> byFips[fips].f]
        ELSE [id |-> id, hasData |-> FALSE, fips |-> Undefined,
              label |-> "", f |-> NoFields]

\* groups[0].values[0].tests fails with a TypeError when there is no first
\* group or the first group has no record
aggMapDataThrows(groups) == Len(groups) = 0 \/ Len(groups[1].values) = 0

\* features.map(...): one row per map feature
FeatureRows(features, byFips) ==
    [threw |-> FALSE, rows |-> [n \in 1..Len(features) |-> FeatureRow(features[n], byFips)]]

aggMapData(groups, features) ==
    IF aggMapDataThrows(groups) THEN [threw |-> TRUE, rows |-> <<>>]
    ELSE FeatureRows(features,
                     SummaryByFips(groups, NotNullish(groups[1].values[1].f["tests"]),
                                   Len(groups)))

-----------------------------------------------------------------------------
(* The datasets the model draws its inputs from *)

MaxTestRows == 3    \* the testing dataset has at most this many rows

MARCH(d1, d2) == <<"2", "0", "2", "0", "-", "0", "3", "-", d1, d2>>

CaseRow(date, state, fips, cases, deaths) ==
    [date |-> JSStr(date), state |-> state, county |-> "", fips |-> JSStr(fips),
     cases |-> JSStr(cases), deaths |-> JSStr(deaths)]

\* rows in the order of us-states.csv: by date, then by state
CaseRows ==
    << CaseRow(MARCH("0", "1"), "New York",   <<"3", "6">>, <<"7">>, <<"0">>),
       CaseRow(MARCH("1", "2"), "California", <<"0", "6">>, <<"1", "0">>, <<"0">>),
       CaseRow(MARCH("1", "3"), "California", <<"0", "6">>, <<"1", "5">>, <<"1">>),
       CaseRow(MARCH("1", "4"), "California", <<"0", "6">>, <<"1", "5">>, <<"1">>),
       CaseRow(MARCH("1", "5"), "California", <<"0", "6">>, <<"2", "0">>, <<"2">>),
       CaseRow(MARCH("1", "5"), "New York",   <<"3", "6">>, <<"5">>, <<"1">>) >>

TestRow(date, fips, positive, negative, pending, total, posInc, negInc, totInc) ==
    [date |-> JSNum(date), fips |-> JSStr(fips),
     positive |-> positive, negative |-> negative, pending |-> pending, total |-> total,
     positiveIncrease |-> posInc, negativeIncrease |-> negInc,
     totalTestResultsIncrease |-> totInc]

TestRows ==
    << TestRow(20200315, <<"0", "6">>, JSNum(300), JSNum(900), JSNull, JSNum(1200),
               JSNum(100), JSNum(300), JSNum(400)),
       TestRow(20200314, <<"0", "6">>, JSNum(200), JSNum(600), JSNum(10), JSNum(810),
               JSNum(50), JSNum(150), JSNum(200)),
       TestRow(20200315, <<"3", "6">>, JSNum(3), JSNum(27), JSNull, JSNum(30),
               JSNum(0), Undefined, JSNum(0)),
       TestRow(20200315, <<"0", "6">>, JSNum(320), JSNum(900), JSNum(5), JSNum(1225),
               JSNum(120), JSNum(300), JSNum(425)) >>

PopRows ==
    << [fips |-> <<"0", "6">>, pop |-> <<"1", "0", "0", "0", "0", "0">>],
       [fips |-> <<"0", "0">>, pop |-> <<"3", "0", "0", "0", "0", "0">>],
       [fips |-> <<"3", "6">>, pop |-> <<"2", "5", "0", "0", "0", "0">>] >>

\* the subsequence of rows at the positions in keep
RECURSIVE SubRows(_, _, _)
SubRows(rows, keep, n) ==
    IF n = 0 THEN <<>>
    ELSE SubRows(rows, keep, n - 1) \o (IF n \in keep THEN <<rows[n]>> ELSE <<>>)

\* every case dataset: any of the rows missing
CaseDatasets == {SubRows(CaseRows, keep, Len(CaseRows)) : keep \in SUBSET (1..Len(CaseRows))}


-----------------------------------------------------------------------------
(* State *)

NoGrid == [set |-> FALSE, groups |-> <<>>, extents |-> EmptyMap]
NoJoin == [set |-> FALSE, threw |-> FALSE, rows |-> <<>>]
\* a memoize-one cache before its first call; afterwards it holds the
\* identities of the last arguments (and what the dates array holds) and
\* the last result
NoMemo == [set |-> FALSE, groups |-> "", datesRef |-> 0, dates |-> <<>>,
           hasTestingData |-> FALSE, result |-> NoGrid]
NoCalls == [filter |-> {}, agg |-> {}, pop |-> {}, testing |-> {}, errors |-> {}]

filterDefaults ==
    [state |-> "all", field |-> "newCases", time |-> "14d",
     useLog |-> FALSE, per100k |-> FALSE, consistentY |-> TRUE]

\* the state once the script has run and before any dataset has arrived
Fresh ==
    /\ loaded = FALSE
    /\ stateData = <<>>
    /\ usData = <<>>
    /\ lastCasesDate = JSNull
    /\ filters = filterDefaults
    /\ isTestingData = FALSE
    /\ datesToShow = <<>>
    /\ gridData = NoGrid
    /\ overviewData = NoGrid
    /\ gridMemo = NoMemo
    /\ overviewMemo = NoMemo
    /\ nextRef = 1
    /\ mapPending = FALSE
    /\ joinedData = NoJoin
    /\ calls = NoCalls
    /\ countyData = "null"
    /\ renderCalls = 0
    /\ mapDataPromise = "none"
    /\ mapRenderCount = 0
    /\ mapCallbacks = {}
    /\ mapRenders = {}
    /\ thrown = {}
    /\ tooltipShown = FALSE
    /\ tooltipHideTimer = 0
    /\ timers = {}
    /\ lastTooltipCall = "none"

\* lastCasesDate once processGroups has walked these dates
LastDateOf(dates, last) == LastDateAfter(dates, Len(dates), last)

\* the globals processStates and processUS leave behind
Processed(states, national, last) ==
    [stateData |-> states,
     usData |-> national,
     lastCasesDate |-> LastDateOf(GroupDates(states) \o GroupDates(national), last)]

\* usData = processGroups(groups, statePopMap, testingData), main.js:353
NationalGroups(us, popMap) == processGroups(us.groups, popMap, us.testing, TRUE)

\* processStates followed by the processUS it ends with
processStates(rows, popMap, testingByFips, last) ==
    Processed(processGroups(NestByState(rows), popMap, testingByFips, TRUE),
              NationalGroups(processUS(rows, testingByFips), popMap),
              last)

\* row.date.split('-') fails with a TypeError on a row without a date
\* string, main.js:440
processGroupsThrows(rows) == \E n \in 1..Len(rows) : rows[n].date.k # "str"

\* the testing rows processTestingData reports with console.error: those
\* whose region and date the index already holds, main.js:385-387
RepeatedTestingRows(rows) ==
    {n \in 1..Len(rows) :
        /\ Truthy(rows[n].date)
        /\ PropKey(rows[n].fips) \in DOMAIN TestingIndex(rows, n - 1)
        /\ TestingValue(rows[n]).date
               \in DOMAIN TestingIndex(rows, n - 1)[PropKey(rows[n].fips)]}

\* what the calls processStates makes before processGroups returned
TablesBuilt ==
    [calls EXCEPT
        !.pop = {[rows |-> statePop, map |-> processPopulations(statePop)]},
        !.testing = {[rows |-> testingCsv,
                      index |-> processTestingData(testingCsv),
                      reported |-> RepeatedTestingRows(testingCsv)]}]

\* fetchStateData().then: processStates on the fetched datasets. When
\* processGroups throws, stateData and usData stay null and the promise
\* chain that would render is rejected.
ProcessStates ==
    /\ ~loaded
    /\ "processGroups" \notin calls.errors
    /\ IF processGroupsThrows(csv)
       THEN /\ calls' = [TablesBuilt EXCEPT !.errors = @ \cup {"processGroups"}]
            /\ UNCHANGED dataVars
       ELSE /\ \E done \in {processStates(csv, processPopulations(statePop),
                                          processTestingData(testingCsv),
                                          lastCasesDate)} :
                   /\ stateData' = done.stateData
                   /\ usData' = done.usData
                   /\ lastCasesDate' = done.lastCasesDate
            /\ loaded' = TRUE
            /\ calls' = TablesBuilt
    /\ UNCHANGED <<inputVars, mapVars, tooltipVars, filterVars, renderVars, joinedData>>

(* Ingestion alone, over every dataset *)
InitIngest ==
    /\ csv \in CaseDatasets
    \* up to MaxTestRows of the testing rows, in file order
    /\ testingCsv \in
           {SubRows(TestRows, keep, Len(TestRows)) :
               keep \in {k \in SUBSET (1..Len(TestRows)) : Cardinality(k) <= MaxTestRows}}
    \* a prefix of the population rows
    /\ statePop \in {SubSeq(PopRows, 1, n) : n \in 0..Len(PopRows)}
    /\ Fresh

SpecIngest == InitIngest /\ [][ProcessStates]_vars

(* Ingestion of irregular datasets: population rows under alias and
   override ids in any order, testing rows in any order, case rows with a
   bad date *)

MaxPopRows == 3     \* an irregular population dataset has at most this many rows

\* population rows: a plain id, two ids fipsRemapping redirects to New York
\* City, New York City itself and an id populationOverrides lists
IrregularPopRows ==
    << [fips |-> <<"0", "6">>, pop |-> <<"1", "0", "0">>],
       [fips |-> <<"3", "6", "0", "0", "5">>, pop |-> <<"1", "4">>],
       [fips |-> <<"3", "6", "0", "4", "7">>, pop |-> <<"2", "5">>],
       [fips |-> NYC_FIPS, pop |-> <<"1", "6">>],
       [fips |-> <<"2", "9", "0", "9", "5">>, pop |-> <<"7", "0">>] >>

\* every sequence of at most max different rows, in any order
Arrangements(rows, max) ==
    UNION {{[i \in 1..k |-> rows[q[i]]] :
               q \in {p \in [1..k -> 1..Len(rows)] :
                         \A a, b \in 1..k : p[a] = p[b] => a = b}} :
           k \in 0..max}

\* the case dataset with the date of one row gone bad: text in another
\* format, the empty string, or no value at all
BadDateDatasets ==
    {[CaseRows EXCEPT ![n].date = d] :
        n \in 1..Len(CaseRows),
        d \in {JSStr(<<"0", "3", "/", "1", "5">>), JSStr(<<>>), Undefined}}

InitRaw ==
    /\ \/ csv = CaseRows /\ testingCsv = <<>>
          /\ statePop \in Arrangements(IrregularPopRows, MaxPopRows)
       \/ csv = CaseRows /\ testingCsv \in Arrangements(TestRows, MaxTestRows)
          /\ statePop = PopRows
       \/ csv \in BadDateDatasets /\ testingCsv = <<>> /\ statePop = PopRows
    /\ Fresh

SpecRaw == InitRaw /\ [][ProcessStates]_vars

-----------------------------------------------------------------------------
(* The window filter and the map summarizer applied to the ingested series *)

MaxDates == 4       \* a requested date list has at most this many dates

\* the days a requested date list is drawn from: 2020-03-01, 2020-03-02 and
\* 2020-03-12 to 2020-03-15
WindowDays == {60, 61, 71, 72, 73, 74}

\* the members of a finite set of integers in increasing order
RECURSIVE Sorted(_)
Sorted(set) ==
    IF set = {} THEN <<>>
    ELSE LET m == CHOOSE x \in set : \A y \in set : x <= y
         IN  <<m>> \o Sorted(set \ {m})

\* every requested date list: up to MaxDates days in chronological order,
\* contiguous or not
DateLists ==
    {[i \in 1..Cardinality(days) |-> JSNum(Sorted(days)[i])] :
        days \in {d \in SUBSET WindowDays : Cardinality(d) <= MaxDates}}

\* the ids of the state features of assets/us-counties.topojson the model
\* keeps: California, New York and Puerto Rico
stateFeatures == <<6, 36, 72>>

\* filterData(stateData, dates, true), for any date list
ApplyFilter ==
    /\ loaded
    /\ ~gridData.set
    /\ \E dates \in DateLists :
           /\ datesToShow' = dates
           /\ gridData' = [set |-> TRUE] @@ filterData(stateData, dates, TRUE)
    /\ UNCHANGED <<inputVars, mapVars, tooltipVars, dataVars, filterVars, overviewData,
                   gridMemo, overviewMemo,
                   nextRef, mapPending, joinedData, calls>>

\* aggMapData on the groups filterData returned
ApplyAgg ==
    /\ gridData.set
    /\ ~joinedData.set
    /\ joinedData' = [set |-> TRUE] @@ aggMapData(gridData.groups, stateFeatures)
    /\ UNCHANGED <<inputVars, mapVars, tooltipVars, dataVars, filterVars, renderVars, calls>>

InitWindow ==
    /\ csv \in CaseDatasets
    /\ testingCsv \in {SubSeq(TestRows, 1, n) : n \in {0, MaxTestRows}}
    /\ statePop \in {<<>>, PopRows}
    /\ Fresh

NextWindow == ProcessStates \/ ApplyFilter \/ ApplyAgg

SpecWindow == InitWindow /\ [][NextWindow]_vars

-----------------------------------------------------------------------------
(* The program: routing, render passes and the map callback *)

MaxRenders == 3     \* render runs at most this many times

Absent == "(absent)"

\* the keys of dataPointLabels (main.js:50-66)
DataPointKeys == ValueKeySet \cup P100kKeySet \cup {"pop", "pop_p100k"}

\* the boolean a query-string value of a boolean filter stands for
QsBool(v, default) == IF v = Absent THEN default ELSE v = "1"

\* Router.parse: the filters and isTestingData after the loop over the
\* filter keys, for a query string holding these values
RouterParse(old, oldTesting, qs) ==
    LET state == IF qs.state = Absent THEN filterDefaults.state ELSE qs.state
        field == IF qs.field = Absent THEN filterDefaults.field ELSE qs.field
        time == IF qs.time = Absent THEN filterDefaults.time ELSE qs.time
        fieldSet == field # old.field /\ field \in DataPointKeys
        newField == IF fieldSet THEN field ELSE old.field
        testing == IF fieldSet THEN newField \in {"tests", "newTests"} ELSE oldTesting
        cleared == fieldSet /\ testing
        \* qs[filterKeys.useLog] = '0' when a testing field was selected
        log == IF cleared THEN "0" ELSE qs.log
    IN  [filters |->
            [state |-> state,
             field |-> newField,
             time |-> time,
             useLog |-> QsBool(log, filterDefaults.useLog),
             per100k |-> QsBool(qs.per100k, filterDefaults.per100k),
             consistentY |-> QsBool(qs.consistentY, filterDefaults.consistentY)],
         isTestingData |-> testing]

\* the query strings the model navigates to
Queries ==
    [state : {Absent}, field : {Absent, "cases"}, time : {Absent, "7d", "1mo", "all"},
     log : {Absent}, per100k : {Absent}, consistentY : {Absent}]

firstCasesDate == NewDate(JSNum(2020), JSNum(0), JSNum(21))

dateDiffInDays(b, a) == b.n - a.n

\* the window render builds: daysToShow dates ending at lastCasesDate
RenderDates(time) ==
    LET daysToShow ==
            CASE time = "7d"  -> 7
              [] time = "14d" -> 14
              [] time = "1mo" -> 30
              [] OTHER        -> dateDiffInDays(lastCasesDate, firstCasesDate)
        n == IF daysToShow < 1 THEN 1 ELSE daysToShow
    IN  [i \in 1..n |-> JSNum(lastCasesDate.n - (n - i))]

\* a slip: the date lists compared by what they hold, not by identity
areInputsEqualDeep(memo, groups, datesRef, dates, hasTestingData) ==
    /\ memo.groups = groups
    /\ memo.dates = dates
    /\ memo.hasTestingData = hasTestingData

\* areInputsEqual of memoize-one: every argument identical (===) to the
\* one of the last call
areInputsEqual(memo, groups, datesRef, dates, hasTestingData) ==
    /\ memo.groups = groups
    /\ memo.datesRef = datesRef
    /\ memo.hasTestingData = hasTestingData

\* the memoized filterData: the last result when the arguments are those
\* of the last call, a new one otherwise
Memoized(memo, groups, data, datesRef, dates, hasTestingData) ==
    IF memo.set /\ areInputsEqual(memo, groups, datesRef, dates, hasTestingData)
    THEN memo.result
    ELSE [set |-> TRUE] @@ filterData(data, dates, hasTestingData)

\* the fields whose name starts with "new"
IsNewField(field) ==
    field \in {k \in ValueKeySet : k \notin {"cases", "deaths", "positive", "negative",
                                             "pending", "tests"}}
              \cup {per100kKey(k) : k \in {"newCases", "newDeaths", "newPositive",
                                           "newNegative", "newTests"}}

\* the value renderGrid sorts a group by
SortValOf(g, field) ==
    IF IsNewField(field) THEN d3sum(g.values, field, Len(g.values))
    ELSE LET has == {n \in 1..Len(g.values) : NotNullish(Get(g.values[n].f, field))}
         IN  IF has = {} THEN JSNum(-1)
             ELSE g.values[CHOOSE n \in has : \A m \in has : m <= n].f[field]

\* renderGrid sets sortVal on the group objects of the data it is given
renderGrid(data, field) ==
    [data EXCEPT !.groups =
        [n \in 1..Len(data.groups) |->
            [data.groups[n] EXCEPT !.sortVal = SortValOf(data.groups[n], field)]]]

\* a slip: filterData reuses the object it is given, so that what is written
\* afterwards is written on it
WrittenInPlace(object, written) == written

\* an object that existed before a step of the pass, after the step has
\* built and written `written`: filterData builds its extents, its records
\* and its groups as new objects (const extents = {}, {...values[valuesIndex],
\* i}, {...g, values: newValues}) and renderGrid sets sortVal on the groups
\* of that result (data.groups.slice(0) copies the array, not the groups),
\* so no write lands on an object that existed before
AfterWrites(object, written) == object

\* what a render pass leaves behind: the memoized filters called on a new
\* date list (whose identity is nextRef), the grid drawn from the result;
\* the published groups after the filters and renderGrid have written, and
\* the extents of the grid call after the overview call
Rendered(dates, grid, overview, drawn) ==
    /\ datesToShow' = dates
    /\ stateData' = [n \in DOMAIN stateData |-> AfterWrites(stateData[n], drawn.groups[n])]
    /\ usData' = [n \in DOMAIN usData |-> AfterWrites(usData[n], overview.groups[n])]
    /\ gridData' = [drawn EXCEPT !.extents = AfterWrites(@, overview.extents)]
    /\ overviewData' = overview
    /\ gridMemo' = [set |-> TRUE, groups |-> "stateData", datesRef |-> nextRef,
                    dates |-> dates, hasTestingData |-> TRUE, result |-> drawn]
    /\ overviewMemo' = [set |-> TRUE, groups |-> "usData", datesRef |-> nextRef,
                        dates |-> dates, hasTestingData |-> TRUE, result |-> overview]
    /\ calls' = [calls EXCEPT !.filter = @ \cup
                   {[groups |-> stateData, dates |-> dates, result |-> grid],
                    [groups |-> usData, dates |-> dates, result |-> overview]}]
    /\ nextRef' = nextRef + 1
    /\ mapPending' = TRUE

\* renderGrid on the filtered grid data, sorted by this field
RenderGridOf(dates, grid, overview, field) ==
    Rendered(dates, grid, overview, renderGrid(grid, field))

\* filterGridData and filterOverviewData on the date list render built
RenderWindow(dates, field) ==
    RenderGridOf(dates,
                 Memoized(gridMemo, "stateData", stateData, nextRef, dates, TRUE),
                 Memoized(overviewMemo, "usData", usData, nextRef, dates, TRUE),
                 field)

\* render({groups: stateData, overview: usData}) under the filters f
Render(f) ==
    /\ lastCasesDate # JSNull
    /\ nextRef <= MaxRenders
    /\ RenderWindow(RenderDates(f.time), IF f.per100k THEN per100kKey(f.field) ELSE f.field)

\* fetchStateDataPromise.then(() => renderAllStates()), main.js:1564-1566
FirstRender ==
    /\ loaded
    /\ ~gridData.set
    /\ Render(filters)
    /\ UNCHANGED <<inputVars, mapVars, tooltipVars, loaded, lastCasesDate, filterVars, joinedData>>

\* the history listener (main.js:145-153): parse the query string, render.
\* Before the datasets have arrived render fails on the null lastCasesDate
\* and only the filters have changed.
HistoryChange ==
    /\ ~loaded \/ gridData.set
    /\ \E qs \in Queries :
           \E parsed \in {RouterParse(filters, isTestingData, qs)} :
               /\ filters' = parsed.filters
               /\ isTestingData' = parsed.isTestingData
               /\ IF loaded THEN Render(parsed.filters)
                  ELSE UNCHANGED <<stateData, usData, renderVars, calls>>
    /\ UNCHANGED <<inputVars, mapVars, tooltipVars, loaded, lastCasesDate, joinedData>>

\* the throttled resize listener (main.js:1515-1520): render(lastData)
ResizeWindow ==
    /\ gridData.set
    /\ Render(filters)
    /\ UNCHANGED <<inputVars, mapVars, tooltipVars, loaded, lastCasesDate, filterVars, joinedData>>

\* the callback render chains on fetchMapData() (main.js:614-618), for the
\* latest render: renderMap calls aggMapData on the grid data
RenderMap ==
    /\ mapPending
    /\ mapPending' = FALSE
    /\ joinedData' = [set |-> TRUE] @@ aggMapData(gridData.groups, stateFeatures)
    /\ calls' = [calls EXCEPT !.agg = @ \cup
                   {[groups |-> gridData.groups,
                     result |-> aggMapData(gridData.groups, stateFeatures)]}]
    /\ UNCHANGED <<inputVars, mapVars, tooltipVars, dataVars, filterVars, datesToShow,
                   gridData, overviewData,
                   gridMemo, overviewMemo, nextRef>>

Init ==
    /\ csv \in {SubRows(CaseRows, (1..Len(CaseRows)) \ drop, Len(CaseRows)) :
                   drop \in {{}, {1}, {3}, {6}}}
    /\ testingCsv \in {SubSeq(TestRows, 1, n) : n \in {0, MaxTestRows}}
    /\ statePop = PopRows
    /\ Fresh

Next == ProcessStates \/ FirstRender \/ HistoryChange \/ ResizeWindow \/ RenderMap

Spec == Init /\ [][Next]_vars

-----------------------------------------------------------------------------
(* The page: history changes, the arrival of the datasets and of the map
   data, the map callback of render, and the tooltip. A render call is known
   here by its number, the data it draws is not looked into. *)

MaxCalls == 3       \* render is entered at most this many times
MaxTimers == 2      \* hideTooltipSoon is called at most this many times

\* the query strings the page navigates to
PageQueries ==
    [state : {Absent, "California"}, field : {Absent, "tests"}, time : {Absent},
     log : {Absent, "1"}, per100k : {Absent}, consistentY : {Absent}]

\* render(data) on datasets that have arrived, then hideTooltip() (main.js:
\* 1493-1513). The early return (isCounties && isTestingData) comes before
\* ++mapRenderCount and before the callback is chained. A callback chained on
\* the resolved promise runs as soon as the caller has returned, when its
\* count is still the latest.
RenderCalled(early) ==
    /\ renderCalls' = renderCalls + 1
    /\ IF early
       THEN UNCHANGED <<mapDataPromise, mapRenderCount, mapCallbacks, mapRenders>>
       ELSE /\ mapRenderCount' = mapRenderCount + 1
            /\ mapDataPromise' = IF mapDataPromise = "none" THEN "pending" ELSE mapDataPromise
            /\ IF mapDataPromise = "resolved"
               THEN /\ mapRenders' = mapRenders \cup
                           {[data |-> renderCalls + 1, latest |-> renderCalls + 1,
                             chained |-> FALSE]}
                    /\ UNCHANGED mapCallbacks
               ELSE /\ mapCallbacks' = mapCallbacks \cup
                           {[count |-> mapRenderCount + 1, data |-> renderCalls + 1]}
                    /\ UNCHANGED mapRenders
    /\ tooltipShown' = FALSE
    /\ lastTooltipCall' = "hideTooltip"
    /\ UNCHANGED <<thrown, tooltipHideTimer, timers>>

\* fetchStateDataPromise.then(() => renderAllStates()), main.js:1564-1566:
\* the page was opened on the default filters
PageFirstRender ==
    /\ loaded
    /\ mapRenderCount = 0
    /\ renderCalls < MaxCalls
    /\ RenderCalled(FALSE)
    /\ UNCHANGED <<inputVars, dataVars, filterVars, renderVars, joinedData, calls, countyData>>

\* the history listener (main.js:145-153): parse, then renderAllStates() or
\* renderCounties(filters.state). renderAllStates on null datasets enters
\* render, which throws on the null lastCasesDate; renderCounties throws on
\* the null countyData or stateData before it calls render.
PageHistoryChange ==
    /\ renderCalls < MaxCalls
    /\ loaded => mapRenderCount > 0
    /\ \E qs \in PageQueries :
           \E parsed \in {RouterParse(filters, isTestingData, qs)} :
               /\ filters' = parsed.filters
               /\ isTestingData' = parsed.isTestingData
               /\ IF loaded /\ (parsed.filters.state = "all" \/ countyData # "null")
                  THEN RenderCalled(parsed.filters.state # "all" /\ parsed.isTestingData)
                  ELSE /\ thrown' = thrown \cup
                              {IF parsed.filters.state = "all"
                               THEN "renderAllStates" ELSE "renderCounties"}
                       /\ renderCalls' =
                              IF parsed.filters.state = "all"
                              THEN renderCalls + 1 ELSE renderCalls
                       /\ UNCHANGED <<mapDataPromise, mapRenderCount, mapCallbacks,
                                      mapRenders, tooltipVars>>
    /\ UNCHANGED <<inputVars, dataVars, renderVars, joinedData, calls, countyData>>

\* fetchCountyData().then: processCounties has set countyData
CountiesFetched ==
    /\ countyData = "null"
    /\ countyData' = "set"
    /\ UNCHANGED <<inputVars, dataVars, filterVars, renderVars, joinedData, calls,
                   renderCalls, mapDataPromise, mapRenderCount, mapCallbacks, mapRenders,
                   thrown, tooltipVars>>

\* mapDataPromise resolves: the chained callbacks run in the order they were
\* chained, each calling renderMap when its count is mapRenderCount
MapFetched ==
    /\ mapDataPromise = "pending"
    /\ mapDataPromise' = "resolved"
    /\ mapRenders' = mapRenders \cup
           {[data |-> c.data, latest |-> renderCalls, chained |-> TRUE] :
               c \in {b \in mapCallbacks : b.count = mapRenderCount}}
    /\ UNCHANGED <<inputVars, dataVars, filterVars, renderVars, joinedData, calls,
                   countyData, renderCalls, mapRenderCount, mapCallbacks, thrown,
                   tooltipVars>>

\* showTooltip: clearTimeout(tooltipHideTimer), tooltipShown = true
ShowTooltip ==
    /\ timers' = timers \ {tooltipHideTimer}
    /\ tooltipShown' = TRUE
    /\ lastTooltipCall' = "showTooltip"
    /\ UNCHANGED <<inputVars, dataVars, filterVars, renderVars, joinedData, calls, mapVars,
                   tooltipHideTimer>>

\* hideTooltipSoon: tooltipHideTimer = setTimeout(hideTooltip, ...), timer
\* ids being handed out in increasing order
HideTooltipSoon ==
    /\ tooltipHideTimer < MaxTimers
    /\ tooltipHideTimer' = tooltipHideTimer + 1
    /\ timers' = timers \cup {tooltipHideTimer + 1}
    /\ lastTooltipCall' = "hideTooltipSoon"
    /\ UNCHANGED <<inputVars, dataVars, filterVars, renderVars, joinedData, calls, mapVars,
                   tooltipShown>>

\* the oldest timer fires (all have the same delay): hideTooltip runs
TimerFires ==
    /\ timers # {}
    /\ timers' = timers \ {CHOOSE t \in timers : \A u \in timers : t <= u}
    /\ tooltipShown' = FALSE
    /\ UNCHANGED <<inputVars, dataVars, filterVars, renderVars, joinedData, calls, mapVars,
                   tooltipHideTimer, lastTooltipCall>>

NextPage ==
    \/ ProcessStates \/ CountiesFetched \/ PageFirstRender \/ PageHistoryChange
    \/ MapFetched \/ ShowTooltip \/ HideTooltipSoon \/ TimerFires

\* the page opened on a URL without a query string, nothing fetched yet
InitPage ==
    /\ csv = CaseRows
    /\ testingCsv = <<>>
    /\ statePop = PopRows
    /\ Fresh

SpecPage == InitPage /\ [][NextPage]_vars

-----------------------------------------------------------------------------
(* Properties of ingestion *)

AllData == stateData \o usData

IntOf(v) == IF v.k = "num" THEN v.n ELSE 0

\* the total of val[x] over the members x of a finite set
RECURSIVE SetSum(_, _)
SetSum(val, set) ==
    IF set = {} THEN 0
    ELSE LET x == CHOOSE y \in set : TRUE IN val[x] + SetSum(val, set \ {x})

\* the calendar day a YYYYMMDD numeral stands for, by arithmetic
DayOfNumeral(n) ==
    NewDate(JSNum(n \div 10000), JSNum(((n \div 100) % 100) - 1), JSNum(n % 100))

\* the raw testing field a record key is read from
RawTestField(c, key) ==
    CASE key = "positive"    -> c.positive
      [] key = "negative"    -> c.negative
      [] key = "pending"     -> c.pending
      [] key = "tests"       -> c.total
      [] key = "newPositive" -> c.positiveIncrease
      [] key = "newNegative" -> c.negativeIncrease
      [] key = "newTests"    -> c.totalTestResultsIncrease

\* the testing rows of one region and day (all regions when fips is "any")
TestRowsAt(fips, date) ==
    {n \in 1..Len(testingCsv) :
        /\ DayOfNumeral(testingCsv[n].date.n) = date
        /\ fips # <<"any">> => testingCsv[n].fips.s = fips}

\* of these, for each region the row the dataset lists last
LastTestRowsAt(fips, date) ==
    {n \in TestRowsAt(fips, date) :
        \A m \in TestRowsAt(fips, date) :
            testingCsv[m].fips = testingCsv[n].fips => m <= n}

\* C1: in every series processGroups builds, the first record has
\* newCases = cases and newDeaths = deaths, and every later record has
\* newCases = cases - (cases of the record before it), and likewise newDeaths.
C1_DeltaFromCumulative ==
    loaded =>
        \A g \in 1..Len(AllData) :
            LET v == AllData[g].values
            IN  \A i \in 1..Len(v) :
                    /\ v[i].f["cases"].k = "num"
                    /\ v[i].f["deaths"].k = "num"
                    /\ v[i].f["newCases"] =
                         JSNum(v[i].f["cases"].n -
                               (IF i = 1 THEN 0 ELSE v[i - 1].f["cases"].n))
                    /\ v[i].f["newDeaths"] =
                         JSNum(v[i].f["deaths"].n -
                               (IF i = 1 THEN 0 ELSE v[i - 1].f["deaths"].n))

\* a region reports cumulative cases 10, 15, 15, 20 and gets new cases 10, 5, 0, 5
C1_Witness ==
    /\ loaded
    /\ \E g \in 1..Len(stateData) :
           LET v == stateData[g].values
           IN  /\ Len(v) = 4
               /\ [i \in 1..4 |-> v[i].f["cases"].n] = <<10, 15, 15, 20>>
               /\ [i \in 1..4 |-> v[i].f["newCases"].n] = <<10, 5, 0, 5>>

\* C3: on every record whose region has a known population p > 0, every
\* tracked field with a numeric value v has a per-capita field equal to
\* v / (p / 100000), that is, per-capita * p = v * 100000.
C3_PerCapita ==
    loaded =>
        \A g \in 1..Len(AllData) :
            \A i \in 1..Len(AllData[g].values) :
                LET f == AllData[g].values[i].f
                    p == f["pop"]
                IN  (p.k = "num" /\ p.n > 0) =>
                        \A key \in ValueKeySet :
                            f[key].k = "num" =>
                                LET pc == f[per100kKey(key)]
                                IN  /\ pc.k = "num"
                                    /\ pc.n * p.n * f[key].d = f[key].n * 100000 * pc.d * p.d

\* a record of a region of 100000 people carries 400 new tests per 100000,
\* and one of a region of 250000 people carries 5 cases, 2 per 100000
C3_Witness ==
    /\ loaded
    /\ \E g \in 1..Len(stateData) :
           \E i \in 1..Len(stateData[g].values) :
               LET f == stateData[g].values[i].f
               IN  /\ f["pop"] = JSNum(100000)
                   /\ f["newTests"] = JSNum(400)
                   /\ f["newTests_p100k"] = JSNum(400)
    /\ \E g \in 1..Len(stateData) :
           \E i \in 1..Len(stateData[g].values) :
               LET f == stateData[g].values[i].f
               IN  /\ f["pop"] = JSNum(250000)
                   /\ f["cases"] = JSNum(5)
                   /\ f["cases_p100k"] = JSNum(2)

\* the (group, index) pairs of the state records dated date
StateRecordsAt(date) ==
    {p \in UNION {{<<g, i>> : i \in 1..Len(stateData[g].values)} : g \in 1..Len(stateData)} :
        stateData[p[1]].values[p[2]].f["date"] = date}

AllStateRecords ==
    UNION {{<<g, i>> : i \in 1..Len(stateData[g].values)} : g \in 1..Len(stateData)}

\* C4: the national series has exactly one record for each date some region
\* has a case row on; its cases and deaths are the totals over the case rows
\* of that date; each testing field is the total over the testing rows of
\* that date (one row per region, an absent value counting as nothing), and
\* is unset when no region has a testing row on that date.
C4_NationalSums ==
    loaded =>
        LET us == usData[1].values
        IN  /\ {us[i].f["date"] : i \in 1..Len(us)} =
                 {stateData[p[1]].values[p[2]].f["date"] : p \in AllStateRecords}
            /\ \A i, j \in 1..Len(us) : us[i].f["date"] = us[j].f["date"] => i = j
            /\ \A i \in 1..Len(us) :
                   LET date == us[i].f["date"]
                       at == StateRecordsAt(date)
                       rows == LastTestRowsAt(<<"any">>, date)
                   IN  /\ us[i].f["cases"] =
                            JSNum(SetSum([p \in at |->
                                stateData[p[1]].values[p[2]].f["cases"].n], at))
                       /\ us[i].f["deaths"] =
                            JSNum(SetSum([p \in at |->
                                stateData[p[1]].values[p[2]].f["deaths"].n], at))
                       /\ \A key \in Range(TestKeys) :
                            us[i].f[key] =
                              IF rows = {} THEN Undefined
                              ELSE JSNum(SetSum([n \in rows |->
                                       IntOf(RawTestField(testingCsv[n], key))], rows))

\* on 2020-03-15 two regions report 20 and 5 cases and have testing rows with
\* 300 and 3 positives: the national record has 25 cases and 303 positives;
\* another date has a single reporting region; and a testing row is dated on
\* a day without any case row, which gets no national record
C4_Witness ==
    /\ loaded
    /\ \E i \in 1..Len(usData[1].values) :
           LET f == usData[1].values[i].f
           IN  /\ Cardinality(StateRecordsAt(f["date"])) = 2
               /\ Cardinality(LastTestRowsAt(<<"any">>, f["date"])) = 2
               /\ f["cases"] = JSNum(25)
               /\ f["positive"] = JSNum(303)
    /\ \E i \in 1..Len(usData[1].values) :
           Cardinality(StateRecordsAt(usData[1].values[i].f["date"])) = 1
    /\ \E n \in 1..Len(testingCsv) :
           StateRecordsAt(DayOfNumeral(testingCsv[n].date.n)) = {}

\* the ratio num / den of two testing values when den is a number other than 0
RatioHolds(pct, num, den) ==
    (den.k = "num" /\ den.n # 0) =>
        /\ pct.k = "num"
        /\ pct.n * den.n = IntOf(num) * pct.d

\* C8: a state record whose region and calendar day (decoded from the
\* YYYYMMDD numeral) have a testing row carries that row's values in its
\* testing fields, with the ratio fields computed from them; a state record
\* without such a row has no testing field and no ratio field set.
C8_TestingJoin ==
    loaded =>
        \A p \in AllStateRecords :
            LET r == stateData[p[1]].values[p[2]]
                rows == LastTestRowsAt(r.fips.s, r.f["date"])
            IN  IF rows = {}
                THEN \A key \in Range(TestKeys) \cup PctKeys : r.f[key] = Undefined
                ELSE LET c == testingCsv[CHOOSE n \in rows : TRUE]
                     IN  /\ \A key \in Range(TestKeys) :
                                r.f[key] = IF NotNullish(RawTestField(c, key))
                                           THEN RawTestField(c, key) ELSE JSNull
                         /\ RatioHolds(r.f["positivePct"], r.f["positive"], r.f["tests"])
                         /\ RatioHolds(r.f["negativePct"], r.f["negative"], r.f["tests"])
                         /\ RatioHolds(r.f["pendingPct"], r.f["pending"], r.f["tests"])
                         /\ RatioHolds(r.f["newPositivePct"], r.f["newPositive"],
                                       r.f["newTests"])
                         /\ RatioHolds(r.f["newNegativePct"], r.f["newNegative"],
                                       r.f["newTests"])

\* the row date=20200315, fips "06", positiveIncrease=100,
\* totalTestResultsIncrease=400 is joined to the record of region "06" dated
\* 2020-03-15 (day 74 of 2020, counted from 0), while another record of the
\* same dataset has no testing row and no testing field
C8_Witness ==
    /\ loaded
    /\ \E p \in AllStateRecords :
           LET r == stateData[p[1]].values[p[2]]
           IN  /\ r.fips = JSStr(<<"0", "6">>)
               /\ r.f["date"] = JSNum(74)
               /\ r.f["newPositive"] = JSNum(100)
               /\ r.f["newTests"] = JSNum(400)
               /\ r.f["newPositivePct"] = Rat(1, 4)
    /\ \E p \in AllStateRecords :
           LET r == stateData[p[1]].values[p[2]]
           IN  /\ LastTestRowsAt(r.fips.s, r.f["date"]) = {}
               /\ r.f["newTests"] = Undefined

\* the population dataset resolves this region id: an override exists for
\* it, or a row of the dataset carries it with a population above zero
PopResolved(fips) ==
    /\ fips.k = "str"
    /\ \/ fips.s \in DOMAIN populationOverrides
       \/ \E n \in 1..Len(statePop) :
              /\ statePop[n].fips = fips.s
              /\ statePop[n].pop # <<>>
              /\ \A c \in Range(statePop[n].pop) : IsDigit(c)
              /\ \E c \in Range(statePop[n].pop) : c # "0"

\* the case rows of one state, by their positions in the dataset
CaseRowsOf(state) == {n \in 1..Len(csv) : csv[n].state = state}

\* C11: every state of the case dataset keeps its region with one record per
\* row; a region whose id the population dataset does not resolve is flagged
\* noPopulation and none of its records carries pop or a per-capita field;
\* a region whose id is resolved is not flagged.
C11_UnknownPopulation ==
    loaded =>
        /\ \A n \in 1..Len(csv) :
               \E g \in 1..Len(stateData) :
                   /\ stateData[g].key = csv[n].state
                   /\ Len(stateData[g].values) = Cardinality(CaseRowsOf(csv[n].state))
        /\ \A g \in 1..Len(AllData) :
               LET v == AllData[g].values
               IN  /\ (\A i \in 1..Len(v) : ~PopResolved(v[i].fips)) =>
                          /\ Len(v) > 0 => AllData[g].noPopulation
                          /\ \A i \in 1..Len(v) :
                                 \A key \in P100kKeySet \cup {"pop"} :
                                     v[i].f[key] = Undefined
                   /\ (\A i \in 1..Len(v) : PopResolved(v[i].fips)) =>
                          ~AllData[g].noPopulation

\* the population dataset lists region "06" only: California keeps its four
\* records and is not flagged, New York keeps its two, is flagged and has a
\* record with 5 cases and no cases per 100000
C11_Witness ==
    /\ loaded
    /\ \E g \in 1..Len(stateData) :
           /\ ~stateData[g].noPopulation
           /\ Len(stateData[g].values) = 4
           /\ stateData[g].values[4].f["cases_p100k"] = JSNum(20)
    /\ \E g \in 1..Len(stateData) :
           /\ stateData[g].noPopulation
           /\ Len(stateData[g].values) = 2
           /\ stateData[g].values[2].f["cases"] = JSNum(5)
           /\ stateData[g].values[2].f["cases_p100k"] = Undefined

\* the region ids fipsRemapping redirects, and the ids it redirects them to
AliasIds == DOMAIN fipsRemapping
CanonicalId(id) == IF id \in AliasIds THEN fipsRemapping[id] ELSE id

\* C13: the map processPopulations returns has an entry for the canonical id
\* of every row and none under an alias id, and every id of the override
\* table maps to its override value whatever the rows say.
C13_AliasAndOverride ==
    \A c \in calls.pop :
        /\ DOMAIN c.map \cap AliasIds = {}
        /\ \A n \in 1..Len(c.rows) : CanonicalId(c.rows[n].fips) \in DOMAIN c.map
        /\ \A id \in DOMAIN populationOverrides :
               /\ id \in DOMAIN c.map
               /\ c.map[id] = JSNum(populationOverrides[id])

\* a dataset lists the Bronx (an alias of New York City) with 14, then a
\* plain region with 100, then New York City itself with 16: the map holds
\* 8336817 for New York City, 100 for the plain region, nothing for the Bronx
C13_Witness ==
    \E c \in calls.pop :
        /\ Len(c.rows) = 3
        /\ c.rows[1] = [fips |-> <<"3", "6", "0", "0", "5">>, pop |-> <<"1", "4">>]
        /\ c.rows[2].fips = <<"0", "6">>
        /\ c.rows[3] = [fips |-> NYC_FIPS, pop |-> <<"1", "6">>]
        /\ c.map[NYC_FIPS] = JSNum(8336817)
        /\ c.map[<<"0", "6">>] = JSNum(100)
        /\ <<"3", "6", "0", "0", "5">> \notin DOMAIN c.map

\* a date field of the form YYYY-MM-DD
IsDateText(d) ==
    /\ d.k = "str"
    /\ Len(d.s) = 10
    /\ \A i \in 1..10 : IF i \in {5, 8} THEN d.s[i] = "-" ELSE IsDigit(d.s[i])

\* C14: processGroups never fails on a batch; once the batch is processed
\* every record carries a valid date, and each state has exactly one record
\* for each of its rows whose date is a calendar date, a row with a missing
\* or unparseable date being skipped.
C14_BadDateSkipped ==
    /\ "processGroups" \notin calls.errors
    /\ loaded =>
           /\ \A g \in 1..Len(AllData) :
                  \A i \in 1..Len(AllData[g].values) :
                      AllData[g].values[i].f["date"].k = "num"
           /\ \A n \in 1..Len(csv) :
                  IsDateText(csv[n].date) =>
                      \E g \in 1..Len(stateData) :
                          /\ stateData[g].key = csv[n].state
                          /\ Len(stateData[g].values) =
                                 Cardinality({m \in CaseRowsOf(csv[n].state) :
                                                 IsDateText(csv[m].date)})

-----------------------------------------------------------------------------
(* Properties of the window filter *)

\* C2: for every region, the records filterData emits are records of the
\* region's series, each tagged with i, the position (counted from 0) of its
\* own date in the requested list; their i and their dates strictly increase
\* (so no requested date gets two records and the order is chronological);
\* and a requested date that no record of the series has gets none.
C2_WindowFilter ==
    gridData.set =>
        \A g \in 1..Len(gridData.groups) :
            LET out == gridData.groups[g].values
                series == stateData[g].values
            IN  /\ Len(gridData.groups) = Len(stateData)
                /\ gridData.groups[g].key = stateData[g].key
                /\ \A a \in 1..Len(out) :
                       LET i == out[a].f["i"]
                       IN  /\ i.k = "num"
                           /\ i.n \in 0..(Len(datesToShow) - 1)
                           /\ datesToShow[i.n + 1] = out[a].f["date"]
                           /\ \E b \in 1..Len(series) :
                                  out[a] = [series[b] EXCEPT !.f = [@ EXCEPT !["i"] = i]]
                /\ \A a \in 1..(Len(out) - 1) :
                       /\ out[a].f["i"].n < out[a + 1].f["i"].n
                       /\ out[a].f["date"].n < out[a + 1].f["date"].n
                /\ \A d \in 1..Len(datesToShow) :
                       (\A b \in 1..Len(series) : series[b].f["date"] # datesToShow[d]) =>
                           \A a \in 1..Len(out) : out[a].f["date"] # datesToShow[d]

\* a region with records on both sides of a requested date it has no record
\* for: two records are emitted, tagged 0 and 2
C2_Witness ==
    /\ gridData.set
    /\ \E g \in 1..Len(gridData.groups) :
           LET out == gridData.groups[g].values
           IN  /\ Len(out) = 2
               /\ Len(datesToShow) = 3
               /\ out[1].f["i"] = JSNum(0)
               /\ out[2].f["i"] = JSNum(2)
               /\ Len(stateData[g].values) > 2

\* the fields filterData tracks an extent for
TrackedKeys == {"date"} \cup ValueKeySet \cup P100kKeySet

\* the values of one field that are set (neither null nor undefined) on the
\* matched records of all regions
MatchedValues(key) ==
    {r.f[key] : r \in {rec \in UNION {Range(gridData.groups[g].values) :
                                         g \in 1..Len(gridData.groups)} :
                          rec.f[key].k \notin {"null", "undef"}}}

\* a <= b on two rational numbers
RatLeq(a, b) == a.n * b.d <= b.n * a.d

\* C12: filterData returns an extent for exactly the tracked fields; the
\* extent of a field is [min, max] of the values that field has on the
\* matched records of all regions, and [null, null] when no matched record
\* has a value for it.
C12_Extents ==
    gridData.set =>
        /\ DOMAIN gridData.extents = TrackedKeys
        /\ \A key \in TrackedKeys :
               LET vals == MatchedValues(key)
                   extent == gridData.extents[key]
               IN  /\ \A v \in vals : v.k = "num"
                   /\ IF vals = {} THEN extent = <<JSNull, JSNull>>
                      ELSE /\ extent[1] \in vals
                           /\ extent[2] \in vals
                           /\ \A v \in vals : RatLeq(extent[1], v) /\ RatLeq(v, extent[2])

\* two regions have matched records: the cases extent is [5, 20] and the
\* positives extent is [3, 300], the bounds coming from different regions,
\* the window spans more than one matched date, and no matched record has
\* a pending value
C12_Witness ==
    /\ gridData.set
    /\ Len(gridData.groups) = 2
    /\ \A g \in 1..2 : Len(gridData.groups[g].values) > 0
    /\ gridData.extents["cases"] = <<JSNum(5), JSNum(20)>>
    /\ gridData.extents["positive"] = <<JSNum(3), JSNum(300)>>
    /\ gridData.extents["pending"] = <<JSNull, JSNull>>
    /\ gridData.extents["date"][1] # gridData.extents["date"][2]

-----------------------------------------------------------------------------
(* Properties of the map summarizer *)

\* the groups aggMapData was given, and whether it decided they carry tests
AggGroups == gridData.groups
AggHasTests == NotNullish(AggGroups[1].values[1].f["tests"])

\* the rows of the summary that belong to the region of group g
RowsOfGroup(g) ==
    {n \in 1..Len(joinedData.rows) :
        joinedData.rows[n].hasData /\ joinedData.rows[n].label = AggGroups[g].key}

\* the feature ids that stand for the region of group g
FeaturesOfGroup(g) ==
    {n \in 1..Len(stateFeatures) :
        JSNum(stateFeatures[n]) = ToNumber(stateData[g].values[1].fips)}

\* the total of an integer-valued field over the matched records of group g,
\* a record without the value adding nothing
WindowTotal(g, key) ==
    LET v == AggGroups[g].values
    IN  SetSum([n \in 1..Len(v) |-> IntOf(Get(v[n].f, key))], 1..Len(v))

\* the matched records of group g that carry a number for the field
Carrying(g, key) ==
    {n \in 1..Len(AggGroups[g].values) : AggGroups[g].values[n].f[key].k = "num"}

Summarized == joinedData.set /\ ~joinedData.threw

IncrementOf(key) ==
    CASE key = "cases"    -> "newCases"
      [] key = "deaths"   -> "newDeaths"
      [] key = "tests"    -> "newTests"
      [] key = "positive" -> "newPositive"
      [] key = "negative" -> "newNegative"

Unmatched ==
    {g \in 1..Len(stateData) :
        \A b \in 1..Len(stateData[g].values) :
            \A d \in 1..Len(datesToShow) :
                stateData[g].values[b].f["date"] # datesToShow[d]}

\* C7: a region without a matched record in the window has no summary: no
\* row carries its label, and the rows of its map features carry no data
\* (no label, no population, no field).
C7_UnmatchedAbsent ==
    Summarized =>
        \A g \in Unmatched :
            /\ RowsOfGroup(g) = {}
            /\ \A n \in FeaturesOfGroup(g) :
                   /\ ~joinedData.rows[n].hasData
                   /\ joinedData.rows[n].label = ""
                   /\ joinedData.rows[n].f = NoFields

\* the summary has a row with data for one region and none for another,
\* which has records but none in the window
C7_Witness ==
    /\ Summarized
    /\ \E g \in Unmatched : FeaturesOfGroup(g) # {}
    /\ \E n \in 1..Len(joinedData.rows) : joinedData.rows[n].hasData

\* C10 as stated: aggMapData returns a result for every list of regions.
C10_SummarizerTotal == joinedData.set => ~joinedData.threw

\* q is the quotient a / b as JavaScript computes it: exact on numbers with
\* b other than 0, an infinity for a number other than 0 over 0, NaN otherwise
QuotientIs(q, a, b) ==
    IF a.k = "num" /\ b.k = "num" /\ b.n # 0
    THEN q.k = "num" /\ q.n * b.n * a.d = a.n * b.d * q.d
    ELSE IF a.k = "num" /\ b.k = "num" /\ a.n # 0 THEN q.k = "inf" ELSE q.k = "NaN"

\* the fields a ratio field is the quotient of
NumeratorOf(key) ==
    CASE key = "positivePct"    -> "positive"
      [] key = "negativePct"    -> "negative"
      [] key = "pendingPct"     -> "pending"
      [] key = "newPositivePct" -> "newPositive"
      [] key = "newNegativePct" -> "newNegative"
DenominatorOf(key) == IF key \in {"newPositivePct", "newNegativePct"} THEN "newTests" ELSE "tests"

\* the summary rows that carry data
DataRows == {n \in 1..Len(joinedData.rows) : joinedData.rows[n].hasData}

\* C15: in every summary row, when testing data is present each ratio field
\* is the quotient of the row's own numerator and denominator fields (the
\* aggregates), and is unset otherwise; when the region's population p is
\* known, each per-capita field is the row's own field divided by
\* p / 100000 if that field is a number, and is unset if it is not.
C15_RatiosFromAggregates ==
    Summarized =>
        \A n \in DataRows :
            LET row == joinedData.rows[n].f
            IN  /\ \A key \in PctKeys :
                       IF AggHasTests
                       THEN QuotientIs(row[key], row[NumeratorOf(key)],
                                       row[DenominatorOf(key)])
                       ELSE row[key] = Undefined
                /\ (row["pop"].k = "num" /\ row["pop"].n > 0) =>
                       \A key \in ValueKeySet :
                           IF row[key].k = "num"
                           THEN QuotientIs(row[per100kKey(key)], row[key],
                                           Rat(row["pop"].n, 100000 * row["pop"].d))
                           ELSE row[per100kKey(key)] = Undefined

\* a region of 100000 people has two matched records whose daily positive
\* ratios differ (200/810 and 300/1200) and whose cases per 100000 are 15
\* and 20: its row has positive 150, tests 600 and positivePct 1/4,
\* newPositive 75, newTests 300 and newPositivePct 1/4, cases 5 and 5 cases
\* per 100000
C15_Witness ==
    /\ Summarized
    /\ \E g \in 1..Len(AggGroups) :
           /\ Len(AggGroups[g].values) = 2
           /\ AggGroups[g].values[1].f["positivePct"] = Rat(200, 810)
           /\ AggGroups[g].values[2].f["positivePct"] = Rat(1, 4)
           /\ AggGroups[g].values[1].f["cases_p100k"] = JSNum(15)
           /\ AggGroups[g].values[2].f["cases_p100k"] = JSNum(20)
           /\ \E n \in RowsOfGroup(g) :
                  LET row == joinedData.rows[n].f
                  IN  /\ row["positive"] = JSNum(150)
                      /\ row["tests"] = JSNum(600)
                      /\ row["positivePct"] = Rat(1, 4)
                      /\ row["newPositive"] = JSNum(75)
                      /\ row["newTests"] = JSNum(300)
                      /\ row["newPositivePct"] = Rat(1, 4)
                      /\ row["cases"] = JSNum(5)
                      /\ row["cases_p100k"] = JSNum(5)

\* C16 as stated: the summary row of a region whose population is unknown
\* carries no per-capita field.
C16_NoPerCapitaWithoutPopulation ==
    Summarized =>
        \A n \in DataRows :
            ~Truthy(joinedData.rows[n].f["pop"]) =>
                \A key \in P100kKeySet : joinedData.rows[n].f[key] = Undefined

\* C17 as stated: on every daily record, a ratio field is unset when its
\* denominator (tests, or newTests for the two daily ratios) is zero or has
\* no value, and is numerator / denominator otherwise.
C17_RatioUnsetWithoutDenominator ==
    loaded =>
        \A p \in AllStateRecords :
            LET f == stateData[p[1]].values[p[2]].f
            IN  \A key \in PctKeys :
                    IF f[DenominatorOf(key)].k = "num" /\ f[DenominatorOf(key)].n # 0
                    THEN RatioHolds(f[key], f[NumeratorOf(key)], f[DenominatorOf(key)])
                    ELSE f[key] = Undefined

-----------------------------------------------------------------------------
(* Properties of the testing index *)

\* rows m and n of a testing dataset have the same region id and date
SameTestingKey(rows, m, n) == rows[m].fips = rows[n].fips /\ rows[m].date = rows[n].date

\* C18: whatever the order of the testing rows, processStates completes;
\* processTestingData reports exactly the rows that repeat the region id and
\* date of an earlier row; every row's region and date are in the index; and
\* the index holds, for each region and date, the values of the row the
\* dataset lists last for them.
C18_RepeatedTestingRows ==
    \A c \in calls.testing :
        /\ ~processGroupsThrows(csv) => loaded
        /\ c.reported =
               {n \in 1..Len(c.rows) : \E m \in 1..(n - 1) : SameTestingKey(c.rows, m, n)}
        /\ DOMAIN c.index = {c.rows[n].fips.s : n \in 1..Len(c.rows)}
        /\ \A n \in 1..Len(c.rows) :
               LET day == DayOfNumeral(c.rows[n].date.n)
                   last == CHOOSE m \in 1..Len(c.rows) :
                               /\ SameTestingKey(c.rows, m, n)
                               /\ \A k \in 1..Len(c.rows) :
                                      SameTestingKey(c.rows, k, n) => k <= m
               IN  /\ day \in DOMAIN c.index[c.rows[n].fips.s]
                   /\ \A key \in Range(TestKeys) :
                          c.index[c.rows[n].fips.s][day].t[key] =
                              IF NotNullish(RawTestField(c.rows[last], key))
                              THEN RawTestField(c.rows[last], key) ELSE JSNull

\* region "06" has a row for 2020-03-15 with 300 positives, then region "36"
\* has a row, then region "06" has a second row for 2020-03-15 with 320
\* positives: the third row is reported, the index holds 320 for region "06"
\* and the row of region "36"
C18_Witness ==
    \E c \in calls.testing :
        /\ Len(c.rows) = 3
        /\ c.rows[1].positive = JSNum(300)
        /\ c.rows[2].fips = JSStr(<<"3", "6">>)
        /\ c.rows[3].positive = JSNum(320)
        /\ c.reported = {3}
        /\ c.index[<<"0", "6">>][DayOfNumeral(20200315)].t["positive"] = JSNum(320)
        /\ c.index[<<"3", "6">>][DayOfNumeral(20200315)].t["positive"] = JSNum(3)

-----------------------------------------------------------------------------
(* Properties of the render passes *)

TrailingRun ==
    /\ Len(datesToShow) >= 1
    /\ datesToShow[Len(datesToShow)] = lastCasesDate
    /\ \A i \in 1..(Len(datesToShow) - 1) :
           /\ datesToShow[i].k = "num"
           /\ datesToShow[i + 1] = JSNum(datesToShow[i].n + 1)

\* C20 as stated: the window render builds is a run of consecutive days
\* ending at lastCasesDate, of 7, 14 or 30 dates under the settings 7d, 14d
\* and 1mo, and under the setting all it starts at firstCasesDate.
C20_WindowOfRender ==
    gridData.set =>
        /\ TrailingRun
        /\ filters.time = "7d" => Len(datesToShow) = 7
        /\ filters.time = "14d" => Len(datesToShow) = 14
        /\ filters.time = "1mo" => Len(datesToShow) = 30
        /\ filters.time = "all" => datesToShow[1] = firstCasesDate

-----------------------------------------------------------------------------
(* Properties of the page *)

\* C21 as stated: renderMap is only ever invoked with the data of the
\* latest render call, early returns included, and once the map data has
\* arrived after renders were issued, renderMap has run exactly once for
\* them.
C21_MapOfLatestRender ==
    /\ \A r \in mapRenders : r.data = r.latest
    /\ (mapDataPromise = "resolved" /\ mapCallbacks # {}) =>
           Cardinality({r \in mapRenders : r.chained}) = 1

\* C22 as stated: no render runs on a dataset that is still null, whatever
\* the order of history changes and dataset arrivals.
C22_RenderAfterDatasets == thrown = {}

\* C23 as stated: while showTooltip is the latest tooltip call, the tooltip
\* is shown: no timer set before it hides the tooltip after it.
C23_ShownUntilHidden == lastTooltipCall = "showTooltip" => tooltipShown

\* C24 as stated: whenever a testing field is selected, the log scale is
\* off.
C24_NoLogScaleOnTesting == isTestingData => ~filters.useLog

====
